---------------------------- MODULE Spec2Model ----------------------------
(***************************************************************************)
(* A model of two pieces of the mail server:                               *)
(*   - crates/nlp/src/tokenizers/osb.rs: OsbTokenizer, the sliding-window  *)
(*     Orthogonal Sparse Bigram generator (new and Iterator::next);        *)
(*   - crates/jmap-proto/src/method/validate.rs:                           *)
(*     ValidateSieveScriptRequest::parse.                                  *)
(* Option<T> is modelled as a sequence: << >> is None, <<x>> is Some(x).   *)
(***************************************************************************)
EXTENDS Integers, Sequences, FiniteSets, TLC

\* ------------------------------------------------------------------ bounds
MaxN == 5          \* longest generated upstream token sequence
MaxW == 4          \* largest window size
MaxExtra == 3      \* calls allowed beyond Len(tokens) * window_size (finite source)
MaxInfCalls == 10  \* calls made on a source that never ends
MaxFields == 3     \* most entries of a request object

Alphabet == {"a", "b"}

\* The token stream of the test osb_tokenizer, and its window size.
TestTokens ==
    <<"The", "quick", "brown", "fox", "jumps", "over", "the", "lazy", "dog",
      "and", "the", "lazy", "cat">>
TestWindow == 5

None == << >>
Some(x) == <<x>>

VARIABLES
    tokens,       \* ghost: the tokens the upstream source holds
    infinite,     \* ghost: TRUE when the upstream source repeats tokens for ever
    iter_pos,     \* number of tokens taken from the upstream source
    peeked,       \* Peekable's cache: None | Some(None) | Some(Some(t))
    buf,          \* OsbTokenizer.buf, window_size options
    window_size,
    window_pos,
    window_idx,
    out,          \* history: the items returned by next(), in order
    anchors,      \* history: window_pos when out[k] was built
    last,         \* "new" | "some" | "nothing": what the last call returned
    calls,        \* number of calls to next() so far
    panicked,     \* TRUE once a call to next() has panicked
    heldMax,      \* history: most upstream tokens held at any point of any call
    fills,        \* history: number of times line 78 has assigned a slot
    stored,       \* history: number of those assignments that stored a token
    body,         \* the request body handed to parse, as the parser's tokens
    cursor,       \* number of dictionary entries the parser has consumed
    request,      \* the ValidateSieveScriptRequest being built
    parse_pc,     \* "idle" | "start" | "loop" | "ok" | "err": where parse is
    parse_err     \* the field an error names, or "" for none

osbVars == <<tokens, infinite, iter_pos, peeked, buf, window_size, window_pos,
             window_idx, out, anchors, last, calls, panicked, heldMax,
             fills, stored>>

parseVars == <<body, cursor, request, parse_pc, parse_err>>

vars == <<osbVars, parseVars>>

\* ------------------------------------------------------- upstream source
\* I::next on the underlying iterator, pos tokens having been taken already.
\* Exhaustion of a finite source is permanent.
UpstreamNext(pos) ==
    IF infinite THEN Some(tokens[(pos % Len(tokens)) + 1])
    ELSE IF pos < Len(tokens) THEN Some(tokens[pos + 1])
    ELSE None

\* Peekable::next: hands out the cached item if there is one, else pulls.
PeekableNext(pk, pos) ==
    IF pk # None
    THEN [item |-> pk[1], peeked |-> None, pos |-> pos]
    ELSE LET x == UpstreamNext(pos)
         IN [item |-> x, peeked |-> None,
             pos |-> IF x # None THEN pos + 1 ELSE pos]

\* Mutant of PeekablePeek: the item is taken, as next() does, not cached.
PeekableTake(pk, pos) ==
    IF pk # << >>
    THEN [item |-> pk[1], peeked |-> << >>, pos |-> pos]
    ELSE LET x == UpstreamNext(pos)
         IN [item |-> x, peeked |-> << >>,
             pos |-> IF x # << >> THEN pos + 1 ELSE pos]

\* Peekable::peek: pulls into the cache if the cache is empty.
PeekablePeek(pk, pos) ==
    IF pk # None
    THEN [item |-> pk[1], peeked |-> pk, pos |-> pos]
    ELSE LET x == UpstreamNext(pos)
         IN [item |-> x, peeked |-> Some(x),
             pos |-> IF x # None THEN pos + 1 ELSE pos]

\* ------------------------------------------------------------ OsbTokenizer
\* Index of the slot for logical position p (1-based sequences).
Slot(p, w) == (p % w) + 1

\* Number of upstream tokens held: live slots plus a cached lookahead token.
Held(b, pk) ==
    Cardinality({s \in DOMAIN b : b[s] # None})
    + (IF pk # None /\ pk[1] # None THEN 1 ELSE 0)

\* OsbTokenizer::new
New(w) ==
    [iter_pos |-> 0, peeked |-> None, buf |-> [s \in 1..w |-> None],
     window_size |-> w, window_pos |-> 0, window_idx |-> 0]

\* Lines 76-79: fill the slot of window_pos + window_idx if it is empty.
Fill(self) ==
    LET end_pos == Slot(self.window_pos + self.window_idx, self.window_size)
    IN  IF self.buf[end_pos] = None
        THEN LET nx == PeekableNext(self.peeked, self.iter_pos)
             IN [self EXCEPT !.buf[end_pos] = nx.item,
                             !.peeked = nx.peeked,
                             !.iter_pos = nx.pos]
        ELSE self

\* Mutant of MakeToken: the two tokens of a bigram in the wrong order.
MakeTokenSwapped(idx, t1, t2) ==
    [inner |-> IF idx # 0 THEN <<"Bi", t2, t1>> ELSE <<"Uni", t1>>,
     idx |-> idx]

\* Mutant of MakeToken: the unigram test off by one.
MakeTokenUniUpToOne(idx, t1, t2) ==
    [inner |-> IF idx > 1 THEN <<"Bi", t1, t2>> ELSE <<"Uni", t1>>,
     idx |-> idx]

\* Lines 82-92: the gram and the OsbToken built from it.
MakeToken(idx, t1, t2) ==
    [inner |-> IF idx # 0 THEN <<"Bi", t1, t2>> ELSE <<"Uni", t1>>,
     idx |-> idx]

\* Mutant of WindowFull: the comparison off by one.
WindowFullOffByOne(idx1, w) == idx1 > w

\* Line 96, left operand of ||: the window of this anchor is complete.
WindowFull(idx1, w) == idx1 = w

\* Mutant of PeekSkipped: peek() is called before the left operand is tested.
PeekEager(idx1, w) == FALSE

\* Lines 96-97: || short-circuits, so peek() is not called when the left
\* operand already holds.
PeekSkipped(idx1, w) == WindowFull(idx1, w)

\* Mutant of SourceDrained: the exhaustion test is missing.
SourceDrainedNever(peekItem, nextSlot) == FALSE

\* Mutant of SourceDrained: the test of the next slot is missing.
SourceDrainedPeekOnly(peekItem, nextSlot) == peekItem = << >>

\* Lines 97-98, right operand of ||: source exhausted and the next slot empty.
SourceDrained(peekItem, nextSlot) == peekItem = None /\ nextSlot = None

\* Mutant of ClearSlot: the slot is left as it is.
ClearSlotSkipped(b, s) == b

\* Line 100: the anchor's slot is set to None.
ClearSlot(b, s) == [b EXCEPT ![s] = None]

\* Mutant of Rollover: window_pos is not incremented.
RolloverStay(self) ==
    [self EXCEPT !.buf = [self.buf EXCEPT
                             ![(self.window_pos % self.window_size) + 1] = << >>],
                 !.window_idx = 0]

\* Mutant of Rollover: window_idx is not reset.
RolloverKeepIdx(self) ==
    [self EXCEPT !.buf = [self.buf EXCEPT
                             ![(self.window_pos % self.window_size) + 1] = << >>],
                 !.window_pos = self.window_pos + 1]

\* Lines 100-102: clear the anchor's slot and move to the next anchor.
Rollover(self) ==
    [self EXCEPT !.buf = ClearSlot(self.buf,
                                   Slot(self.window_pos, self.window_size)),
                 !.window_idx = 0,
                 !.window_pos = self.window_pos + 1]

\* Lines 94-103: increment window_idx and roll over if needed.
\* Returns the new fields and the most tokens held on the way.
Advance(self) ==
    LET idx1 == self.window_idx + 1
        s1 == [self EXCEPT !.window_idx = idx1]
        pk == PeekablePeek(s1.peeked, s1.iter_pos)
        s2 == IF PeekSkipped(idx1, self.window_size) THEN s1
              ELSE [s1 EXCEPT !.peeked = pk.peeked, !.iter_pos = pk.pos]
        nextSlot == s2.buf[Slot(s2.window_pos + idx1, s2.window_size)]
    IN  [self |-> IF WindowFull(idx1, self.window_size)
                     \/ SourceDrained(pk.item, nextSlot)
                  THEN Rollover(s2) ELSE s2,
         held |-> Held(s2.buf, s2.peeked)]

\* Mutant of ReturnNone: the anchor is treated as finished before returning.
ReturnNoneFinishAnchor(self) ==
    [self EXCEPT !.window_idx = 0, !.window_pos = self.window_pos + 1]

\* The `?` of lines 81 and 86: return None, the fields staying as they are.
ReturnNone(self) == self

\* Lines 75-106: Iterator::next for window_size >= 1.
\* [self: the fields after the call, item: the Option returned,
\*  anchor: window_pos when the item was built, held: most tokens held,
\*  filled: 1 if line 78 ran, stored: 1 if it stored a token].
OsbNext(self) ==
    LET f == Fill(self)
        end_pos == Slot(f.window_pos + f.window_idx, f.window_size)
        t1 == f.buf[Slot(f.window_pos, f.window_size)]
        t2 == f.buf[end_pos]
        heldF == Held(f.buf, f.peeked)
        filled == IF self.buf[end_pos] = None THEN 1 ELSE 0
        storedTok == IF self.buf[end_pos] = None /\ t2 # None THEN 1 ELSE 0
    IN  IF t1 = None \/ (f.window_idx # 0 /\ t2 = None)
        THEN [self |-> ReturnNone(f), item |-> None, anchor |-> f.window_pos,
              held |-> heldF, filled |-> filled, stored |-> storedTok]
        ELSE LET a == Advance(f)
             IN [self |-> a.self,
                 item |-> Some(MakeToken(f.window_idx, t1[1],
                                         IF t2 = None THEN None ELSE t2[1])),
                 anchor |-> f.window_pos,
                 held |-> IF a.held > heldF THEN a.held ELSE heldF,
                 filled |-> filled, stored |-> storedTok]

Self ==
    [iter_pos |-> iter_pos, peeked |-> peeked, buf |-> buf,
     window_size |-> window_size, window_pos |-> window_pos,
     window_idx |-> window_idx]

Max(a, b) == IF a > b THEN a ELSE b

\* ------------------------------------------- ValidateSieveScriptRequest
\* Keys of a request object: the two properties parse matches by hash, the
\* same name written as a result reference (is_ref), and any other property.
Keys == {[name |-> "accountId", is_ref |-> FALSE],
         [name |-> "blobId", is_ref |-> FALSE],
         [name |-> "accountId", is_ref |-> TRUE],
         [name |-> "unknown", is_ref |-> FALSE]}

\* Value tokens: strings that decode as an identifier, a token of another
\* shape, and a value made of several tokens (an array or an object).
IdStrings == {"id1", "id2"}
Values == IdStrings \cup {"integer", "nested"}

\* Id::default() and BlobId::default()
DefaultId == "default"

\* Lines 28-31: the request parse starts from.
DefaultRequest == [account_id |-> DefaultId, blob_id |-> DefaultId]

\* Token::assert_jmap(Token::DictStart): the first token must open an object.
AssertDictStart(tok) == tok = "DictStart"

\* Token::unwrap_string(field): the value if the token is a string, else an
\* error naming the field.
UnwrapString(tok, field) ==
    IF tok \in IdStrings THEN [ok |-> TRUE, value |-> tok, err |-> ""]
    ELSE [ok |-> FALSE, value |-> DefaultId, err |-> field]

\* Parser::skip_token(depth_array, depth_dict): consumes one well-formed
\* value, whatever its shape, and succeeds.
SkipToken(tok) == [ok |-> TRUE, err |-> ""]

\* Mutant of ParseEntry: the is_ref guards of the two arms are missing.
ParseEntryIgnoreRef(req, e) ==
    IF e.key.name = "accountId"
    THEN LET r == UnwrapString(e.value, "accountId")
         IN [ok |-> r.ok, err |-> r.err,
             request |-> IF r.ok THEN [req EXCEPT !.account_id = r.value]
                         ELSE req]
    ELSE IF e.key.name = "blobId"
    THEN LET r == UnwrapString(e.value, "blobId")
         IN [ok |-> r.ok, err |-> r.err,
             request |-> IF r.ok THEN [req EXCEPT !.blob_id = r.value]
                         ELSE req]
    ELSE [ok |-> SkipToken(e.value).ok, err |-> SkipToken(e.value).err,
          request |-> req]

\* Mutant of ParseEntry: a value of the wrong shape leaves the default.
ParseEntryLenient(req, e) ==
    IF e.key.name = "accountId" /\ ~e.key.is_ref
    THEN LET r == UnwrapString(e.value, "accountId")
         IN [ok |-> TRUE, err |-> "",
             request |-> IF r.ok THEN [req EXCEPT !.account_id = r.value]
                         ELSE req]
    ELSE IF e.key.name = "blobId" /\ ~e.key.is_ref
    THEN LET r == UnwrapString(e.value, "blobId")
         IN [ok |-> TRUE, err |-> "",
             request |-> IF r.ok THEN [req EXCEPT !.blob_id = r.value]
                         ELSE req]
    ELSE [ok |-> SkipToken(e.value).ok, err |-> SkipToken(e.value).err,
          request |-> req]

\* Lines 38-48: one iteration of the loop, for the entry e.
\* [ok, request, err]: the request after the entry, or the error returned.
ParseEntry(req, e) ==
    IF e.key.name = "accountId" /\ ~e.key.is_ref
    THEN LET r == UnwrapString(e.value, "accountId")
         IN [ok |-> r.ok, err |-> r.err,
             request |-> IF r.ok THEN [req EXCEPT !.account_id = r.value]
                         ELSE req]
    ELSE IF e.key.name = "blobId" /\ ~e.key.is_ref
    THEN LET r == UnwrapString(e.value, "blobId")
         IN [ok |-> r.ok, err |-> r.err,
             request |-> IF r.ok THEN [req EXCEPT !.blob_id = r.value]
                         ELSE req]
    ELSE [ok |-> SkipToken(e.value).ok, err |-> SkipToken(e.value).err,
          request |-> req]

\* Line 51: what parse returns once next_dict_key has no key left.
ParseResult(req) == "ok"

\* ------------------------------------------------------------------ Init
SeqsUpTo(S, n) == UNION {[1..k -> S] : k \in 0..n}

Inputs ==
    {[tokens |-> t, infinite |-> FALSE, w |-> w] :
        t \in SeqsUpTo(Alphabet, MaxN), w \in 0..MaxW}
    \cup {[tokens |-> t, infinite |-> TRUE, w |-> w] :
        t \in SeqsUpTo(Alphabet, MaxN) \ {<< >>}, w \in 0..MaxW}
    \cup {[tokens |-> TestTokens, infinite |-> FALSE, w |-> TestWindow]}

Init ==
    \E in \in Inputs :
        /\ tokens = in.tokens
        /\ infinite = in.infinite
        /\ LET n == New(in.w)
           IN /\ iter_pos = n.iter_pos
              /\ peeked = n.peeked
              /\ buf = n.buf
              /\ window_size = n.window_size
              /\ window_pos = n.window_pos
              /\ window_idx = n.window_idx
        /\ out = << >>
        /\ anchors = << >>
        /\ last = "new"
        /\ calls = 0
        /\ panicked = FALSE
        /\ heldMax = 0
        /\ fills = 0
        /\ stored = 0
        /\ body = [start |-> "DictStart", fields |-> << >>]
        /\ cursor = 0
        /\ request = DefaultRequest
        /\ parse_pc = "idle"
        /\ parse_err = ""

\* --------------------------------------------------------------- actions
CallCap ==
    IF infinite THEN MaxInfCalls ELSE Len(tokens) * window_size + MaxExtra

\* A call to next() on a generator built with window_size = 0: line 76
\* computes a remainder with a zero divisor, which panics.
NextPanics ==
    /\ ~panicked
    /\ window_size = 0
    /\ panicked' = TRUE
    /\ calls' = calls + 1
    /\ UNCHANGED <<tokens, infinite, iter_pos, peeked, buf, window_size,
                   window_pos, window_idx, out, anchors, last, heldMax,
                   fills, stored>>
    /\ UNCHANGED parseVars

\* A call to next() that returns an item.
NextSome ==
    /\ ~panicked
    /\ window_size >= 1
    /\ calls < CallCap
    /\ LET r == OsbNext(Self)
       IN /\ r.item # None
          /\ iter_pos' = r.self.iter_pos
          /\ peeked' = r.self.peeked
          /\ buf' = r.self.buf
          /\ window_pos' = r.self.window_pos
          /\ window_idx' = r.self.window_idx
          /\ out' = Append(out, r.item[1])
          /\ anchors' = Append(anchors, r.anchor)
          /\ last' = "some"
          /\ heldMax' = Max(heldMax, r.held)
          /\ fills' = fills + r.filled
          /\ stored' = stored + r.stored
    /\ calls' = calls + 1
    /\ UNCHANGED <<tokens, infinite, window_size, panicked>>
    /\ UNCHANGED parseVars

\* A call to next() that returns nothing.
NextNothing ==
    /\ ~panicked
    /\ window_size >= 1
    /\ calls < CallCap
    /\ LET r == OsbNext(Self)
       IN /\ r.item = None
          /\ iter_pos' = r.self.iter_pos
          /\ peeked' = r.self.peeked
          /\ buf' = r.self.buf
          /\ window_pos' = r.self.window_pos
          /\ window_idx' = r.self.window_idx
          /\ last' = "nothing"
          /\ heldMax' = Max(heldMax, r.held)
          /\ fills' = fills + r.filled
          /\ stored' = stored + r.stored
    /\ calls' = calls + 1
    /\ UNCHANGED <<tokens, infinite, window_size, panicked, out, anchors>>
    /\ UNCHANGED parseVars

Next == NextPanics \/ NextSome \/ NextNothing

Spec == Init /\ [][Next]_vars

\* ------------------------------------------------------ parse: Init, actions
Bodies ==
    {[start |-> st, fields |-> f] :
        st \in {"DictStart", "ArrayStart"},
        f \in SeqsUpTo([key : Keys, value : Values], MaxFields)}

ParseInit ==
    /\ body \in Bodies
    /\ cursor = 0
    /\ request = DefaultRequest
    /\ parse_pc = "start"
    /\ parse_err = ""
    /\ tokens = << >>
    /\ infinite = FALSE
    /\ LET n == New(1)
       IN /\ iter_pos = n.iter_pos
          /\ peeked = n.peeked
          /\ buf = n.buf
          /\ window_size = n.window_size
          /\ window_pos = n.window_pos
          /\ window_idx = n.window_idx
    /\ out = << >>
    /\ anchors = << >>
    /\ last = "new"
    /\ calls = 0
    /\ panicked = FALSE
    /\ heldMax = 0
    /\ fills = 0
    /\ stored = 0

\* Lines 28-35: the default request, then the first token must be DictStart.
ParseStart ==
    /\ parse_pc = "start"
    /\ request' = DefaultRequest
    /\ parse_pc' = IF AssertDictStart(body.start) THEN "loop" ELSE "err"
    /\ UNCHANGED <<body, cursor, parse_err>>
    /\ UNCHANGED osbVars

\* Lines 37-49: next_dict_key yields a key; the entry is matched.
ParseField ==
    /\ parse_pc = "loop"
    /\ cursor < Len(body.fields)
    /\ LET r == ParseEntry(request, body.fields[cursor + 1])
       IN /\ request' = r.request
          /\ parse_pc' = IF r.ok THEN "loop" ELSE "err"
          /\ parse_err' = r.err
    /\ cursor' = cursor + 1
    /\ UNCHANGED body
    /\ UNCHANGED osbVars

\* Lines 37 and 51: next_dict_key yields no key; parse returns.
ParseFinish ==
    /\ parse_pc = "loop"
    /\ cursor = Len(body.fields)
    /\ parse_pc' = ParseResult(request)
    /\ UNCHANGED <<body, cursor, request, parse_err>>
    /\ UNCHANGED osbVars

ParseNext == ParseStart \/ ParseField \/ ParseFinish

ParseSpec == ParseInit /\ [][ParseNext]_vars

\* The caller keeps calling next() for as long as a call can be made.
\* CanCall is the enabling condition of Next, and a step of Spec is a Next
\* step exactly when it is a CallStep step (CallStepIsNext, CanCallIsEnabled),
\* so the fairness below is weak fairness of Next.
CanCall == ~panicked /\ (window_size = 0 \/ calls < CallCap)

CallStep == CanCall /\ calls' = calls + 1

FairSpec == Spec /\ WF_calls(CallStep)

CallStepIsNext == [][Next <=> CallStep]_vars

CanCallIsEnabled == CanCall <=> ENABLED Next

\* ------------------------------------------------------------ properties
Min(a, b) == IF a < b THEN a ELSE b

\* The token at upstream position p (0-based).
TokenAt(p) ==
    IF infinite THEN tokens[(p % Len(tokens)) + 1] ELSE tokens[p + 1]

\* The item for anchor i and offset j of the token sequence t.
ExpectedItem(t, i, j) ==
    [inner |-> IF j = 0 THEN <<"Uni", t[i + 1]>>
               ELSE <<"Bi", t[i + 1], t[i + j + 1]>>,
     idx |-> j]

\* For each anchor from i on, its items for offsets 0..min(w, N-i)-1.
RECURSIVE ExpectedFrom(_, _, _)
ExpectedFrom(t, w, i) ==
    IF i >= Len(t) THEN << >>
    ELSE [j \in 1..Min(w, Len(t) - i) |-> ExpectedItem(t, i, j - 1)]
         \o ExpectedFrom(t, w, i + 1)

IsPrefix(s, t) == Len(s) <= Len(t) /\ \A k \in 1..Len(s) : s[k] = t[k]

RECURSIVE SumMin(_, _, _)
SumMin(n, w, i) == IF i >= n THEN 0 ELSE Min(w, n - i) + SumMin(n, w, i + 1)

EmittedFor(i) == Cardinality({k \in 1..Len(out) : anchors[k] = i})

Finished == ~infinite /\ window_size >= 1 /\ last = "nothing"

\* C1: for a finite token sequence and W >= 1, the items returned so far are
\* always a prefix of the anchor-by-anchor, offset-by-offset sequence (t1 the
\* anchor token, t2 the token idx positions after it), and the whole of it
\* once next() has returned nothing.
C1_ExactSequence ==
    (~infinite /\ window_size >= 1) =>
        LET e == ExpectedFrom(tokens, window_size, 0)
        IN  /\ IsPrefix(out, e)
            /\ (last = "nothing" => out = e)

\* A run over more tokens than slots has ended with every expected item out.
C1_Witness ==
    /\ Finished
    /\ window_size >= 2
    /\ Len(tokens) > window_size + 1
    /\ tokens[1] # tokens[2]
    /\ out = ExpectedFrom(tokens, window_size, 0)

\* C2: count law. When next() first returns nothing on a finite source with
\* W >= 1, anchor i has emitted min(W, N-i) items (at least one) and the
\* total is the sum of these; 55 for the 13 tokens of the test with W = 5.
C2_CountLaw ==
    /\ Finished =>
        /\ \A i \in 0..(Len(tokens) - 1) :
              /\ EmittedFor(i) = Min(window_size, Len(tokens) - i)
              /\ EmittedFor(i) >= 1
        /\ Len(out) = SumMin(Len(tokens), window_size, 0)
    /\ (Finished /\ tokens = TestTokens) => Len(out) = 55

\* The test's run has ended, with the tail anchors emitting fewer items.
C2_Witness ==
    /\ Finished
    /\ tokens = TestTokens
    /\ Len(out) = 55
    /\ EmittedFor(12) = 1
    /\ EmittedFor(11) = 2

\* C3: ordering law. Anchors of the emitted items never decrease (so every
\* item of anchor i precedes every item of anchor i+1), each item's t1 is
\* the token of its anchor, and within an anchor the offsets increase.
C3_OrderingLaw ==
    /\ \A k \in 1..Len(out) : out[k].inner[2] = TokenAt(anchors[k])
    /\ \A k \in 1..(Len(out) - 1) :
          /\ anchors[k + 1] \in {anchors[k], anchors[k] + 1}
          /\ anchors[k + 1] = anchors[k] => out[k + 1].idx > out[k].idx

\* Items of at least three anchors are out, the last anchor not the first
\* to use its slot.
C3_Witness ==
    /\ Len(out) >= 1
    /\ anchors[Len(out)] >= 2
    /\ anchors[Len(out)] >= window_size
    /\ window_size >= 2
    /\ out[Len(out)].idx >= 1

\* C4: Uni-first law. The first item of every anchor has idx 0 and is a Uni
\* gram; every later item of the anchor is a Bi gram whose idx is one more
\* than the previous item's, at most W-1; idx = 0 exactly for Uni grams.
C4_UniFirstLaw ==
    \A k \in 1..Len(out) :
        /\ out[k].idx = 0 <=> out[k].inner[1] = "Uni"
        /\ out[k].inner[1] \in {"Uni", "Bi"}
        /\ out[k].idx <= window_size - 1
        /\ IF k = 1 \/ anchors[k] # anchors[k - 1]
           THEN out[k].idx = 0
           ELSE out[k].idx = out[k - 1].idx + 1 /\ out[k].inner[1] = "Bi"

\* An anchor has emitted its Uni gram and W-1 Bi grams, W = 3.
C4_Witness ==
    /\ window_size = 3
    /\ Len(out) >= 4
    /\ out[Len(out)].idx = 2
    /\ out[Len(out) - 2].inner[1] = "Uni"
    /\ anchors[Len(out)] >= 1

\* C5: once next() has returned nothing, every later call returns nothing
\* and leaves window_pos, window_idx and buf as they are.
C5_IdempotentEnd ==
    [][last = "nothing" =>
          /\ last' = "nothing"
          /\ window_pos' = window_pos
          /\ window_idx' = window_idx
          /\ buf' = buf]_vars

\* Two calls in a row have returned nothing after some items.
C5_Witness ==
    /\ Finished
    /\ ~panicked
    /\ Len(out) >= 2
    /\ calls - Len(out) >= 2

\* C6: bounded memory. Live slots plus a cached lookahead token never
\* number more than W, between calls and at every point inside a call.
C6_BoundedMemory ==
    /\ Held(buf, peeked) <= window_size
    /\ heldMax <= window_size

\* W tokens are held, one of them in the lookahead, after slots were reused.
C6_Witness ==
    /\ window_size >= 2
    /\ window_pos >= window_size
    /\ peeked # None /\ peeked[1] # None
    /\ Held(buf, peeked) = window_size

\* C7: no call to next() runs on a generator built with window_size = 0.
C7_ZeroWindowRejected == window_size = 0 => calls = 0

\* C8: with W = 1 the k-th item is the Uni gram of the k-th token with
\* idx 0, no Bi gram is produced, and a finite source of N tokens yields
\* exactly N items.
C8_DegenerateWindow ==
    window_size = 1 =>
        /\ ~infinite => Len(out) <= Len(tokens)
        /\ \A k \in 1..Len(out) :
              out[k] = [inner |-> <<"Uni", TokenAt(k - 1)>>, idx |-> 0]
        /\ Finished => Len(out) = Len(tokens)

\* A W = 1 run over the longest token sequence has ended.
C8_Witness ==
    /\ Finished
    /\ window_size = 1
    /\ Len(tokens) = MaxN
    /\ Len(out) = MaxN

\* C9: with W >= 1, calls on a finite source eventually return nothing, and
\* no call on a source that never ends returns nothing.
C9_FiniteIffFinite ==
    /\ (~infinite /\ window_size >= 1) => <>(last = "nothing")
    /\ [](infinite => last # "nothing")

\* A finite run has just ended: the last call but one returned an item.
C9_Witness ==
    /\ Finished
    /\ calls = Len(out) + 1
    /\ Len(out) = SumMin(Len(tokens), window_size, 0)
    /\ Len(tokens) = 3

\* ---------------------------------------------------- parse: properties
HasKey(name) ==
    \E k \in 1..Len(body.fields) :
        body.fields[k].key = [name |-> name, is_ref |-> FALSE]

\* C10: parse returns Ok only for a request object that contains both
\* accountId and blobId.
C10_MissingFieldFails ==
    parse_pc = "ok" => (HasKey("accountId") /\ HasKey("blobId"))

\* C11: unknown fields are ignored. What parse has done after any number of
\* entries (whether it failed, and the account_id and blob_id it holds) is
\* what the accountId and blobId entries among them alone determine:
\* entries with other keys, whatever their values and places, change nothing.
KnownKey(e) == ~e.key.is_ref /\ e.key.name \in {"accountId", "blobId"}

Consumed == SelectSeq(SubSeq(body.fields, 1, cursor), KnownKey)

\* The value of the last well-formed entry named name in k, or the default.
LastOf(k, name) ==
    LET S == {j \in 1..Len(k) : k[j].key.name = name /\ k[j].value \in IdStrings}
    IN  IF S = {} THEN DefaultId
        ELSE k[CHOOSE j \in S : \A i \in S : i <= j].value

C11_UnknownIgnored ==
    parse_pc \in {"loop", "ok", "err"} /\ body.start = "DictStart" =>
        /\ request.account_id = LastOf(Consumed, "accountId")
        /\ request.blob_id = LastOf(Consumed, "blobId")
        /\ parse_pc = "err" <=>
              \E j \in 1..Len(Consumed) : Consumed[j].value \notin IdStrings

\* parse has returned Ok after skipping an unknown key with a nested value
\* and a result reference named accountId with an integer value.
C11_Witness ==
    /\ parse_pc = "ok"
    /\ request.account_id = "id1"
    /\ \E j \in 1..Len(body.fields) :
          /\ body.fields[j].key.name = "unknown"
          /\ body.fields[j].value = "nested"
    /\ \E j \in 1..Len(body.fields) :
          /\ body.fields[j].key = [name |-> "accountId", is_ref |-> TRUE]
          /\ body.fields[j].value = "integer"

\* -------------------------------------------------- window: properties
Cached == IF peeked # None /\ peeked[1] # None THEN 1 ELSE 0

\* C12 as stated: the tokens taken from the upstream source never number
\* more than the slot-fills performed.
C12_TakenAtMostFills == iter_pos <= fills

\* C12 as amended: every token taken from the upstream source has been
\* stored by a slot-fill or is the one token held in the lookahead, so the
\* tokens taken number at most one more than the slot-fills.
C12_TakenIsStoredOrCached ==
    /\ iter_pos = stored + Cached
    /\ stored <= fills
    /\ iter_pos <= fills + 1

\* The lookahead holds a token that no slot-fill has stored yet, after
\* several fills.
C12_Witness ==
    /\ Cached = 1
    /\ iter_pos = fills + 1
    /\ fills >= 3
    /\ window_size >= 2

AllEmpty == \A s \in DOMAIN buf : buf[s] = None

\* Every token of a finite source has been taken and none is cached.
Exhausted == ~infinite /\ iter_pos = Len(tokens) /\ Cached = 0

\* The source is exhausted and every anchor is finished.
Terminal == Exhausted /\ window_pos >= Len(tokens)

\* C13 as stated: between calls, all slots are empty exactly in the
\* terminal state.
C13_EmptyIffTerminal == window_size >= 1 => (AllEmpty <=> Terminal)

\* C13 as amended: all slots are empty in the terminal state, and a call
\* returns nothing only there; with W >= 2 and after the first call, all
\* slots are empty only in the terminal state. (Before the first call, and
\* with W = 1 between any two calls, all slots are empty as well.)
C13_TerminalIsEmpty ==
    window_size >= 1 =>
        /\ Terminal => AllEmpty
        /\ last = "nothing" => (Terminal /\ AllEmpty)
        /\ (AllEmpty /\ window_size >= 2 /\ calls >= 1) => Terminal

\* The last anchor of a run with W >= 2 has just been finished: the state
\* is terminal, all slots are empty, no call has returned nothing yet.
C13_Witness ==
    /\ Terminal
    /\ AllEmpty
    /\ window_size >= 2
    /\ Len(tokens) >= 3
    /\ last = "some"

\* C14: rollover and slot clearing. A call that emits an item rolls over
\* (anchor slot cleared, window_pos + 1, window_idx = 0) exactly when the
\* incremented window_idx equals W, or the source is exhausted and the slot
\* needed next is empty; otherwise it only increments window_idx. A slot
\* loses or changes its token only by being the anchor's slot in a call
\* that rolls over, and an empty slot is filled only at window_pos +
\* window_idx.
C14_RolloverAndClearing ==
    [][window_size >= 1 =>
        LET a == (window_pos % window_size) + 1
            e == ((window_pos + window_idx) % window_size) + 1
            n == ((window_pos + window_idx + 1) % window_size) + 1
            emits == Len(out') = Len(out) + 1
            rolled == /\ window_pos' = window_pos + 1
                      /\ window_idx' = 0
                      /\ buf'[a] = None
            stayed == /\ window_pos' = window_pos
                      /\ window_idx' = window_idx + 1
            drained == /\ ~infinite
                       /\ iter_pos' = Len(tokens)
                       /\ ~(peeked' # None /\ peeked'[1] # None)
                       /\ buf[n] = None
        IN  /\ emits => /\ rolled <=> (window_idx + 1 = window_size \/ drained)
                        /\ rolled \/ stayed
            /\ ~emits => (window_pos' = window_pos /\ window_idx' = window_idx)
            /\ \A s \in DOMAIN buf :
                  /\ (buf[s] # None /\ buf'[s] # buf[s]) =>
                        (s = a /\ buf'[s] = None /\ emits /\ rolled)
                  /\ (buf[s] = None /\ buf'[s] # None) => s = e
    ]_vars

\* A call has rolled over before the window was complete: the last item's
\* idx is below W-1, and window_pos has moved past its anchor.
C14_Witness ==
    /\ window_size >= 3
    /\ last = "some"
    /\ window_idx = 0
    /\ Len(out) >= 2
    /\ out[Len(out)].idx >= 1
    /\ out[Len(out)].idx < window_size - 1
    /\ window_pos = anchors[Len(out)] + 1

\* C15: a call returns nothing only when the anchor's slot is empty after
\* the fill. Whenever window_idx > 0 between calls, the pair slot is
\* non-empty after the fill of the next call, and after a call has returned
\* nothing no anchor token is held.
C15_NothingOnlyWithoutAnchor ==
    window_size >= 1 =>
        /\ window_idx > 0 =>
              Fill(Self).buf[Slot(window_pos + window_idx, window_size)] # None
        /\ last = "nothing" =>
              /\ buf[Slot(window_pos, window_size)] = None
              /\ window_idx = 0

\* The source is exhausted in the middle of an anchor's window: the pair
\* token is already in its slot.
C15_Witness ==
    /\ window_size >= 3
    /\ window_idx >= 1
    /\ Exhausted
    /\ window_pos >= 1
    /\ buf[Slot(window_pos + window_idx, window_size)] # None

Live == Cardinality({s \in DOMAIN buf : buf[s] # None})

\* C16: between calls, window_idx is in 0..W-1 and the non-empty slots hold
\* exactly the tokens of the contiguous positions window_pos, window_pos+1,
\* ..., each position p in slot p mod W; no slot holds a token of a
\* finished anchor.
C16_PositionInvariant ==
    window_size >= 1 =>
        /\ window_idx \in 0..(window_size - 1)
        /\ Live <= window_size
        /\ \A p \in window_pos..(window_pos + Live - 1) :
              /\ infinite \/ p < Len(tokens)
              /\ buf[Slot(p, window_size)] = Some(TokenAt(p))

\* The held positions wrap around the end of the buffer.
C16_Witness ==
    /\ window_size >= 3
    /\ Live >= 2
    /\ window_pos >= window_size
    /\ Slot(window_pos, window_size) > Slot(window_pos + Live - 1, window_size)
    /\ tokens[1] # tokens[2]

\* The entries whose key is accountId or blobId and whose value is not a
\* string-shaped identifier.
Mismatched ==
    {j \in 1..Len(body.fields) :
        KnownKey(body.fields[j]) /\ body.fields[j].value \notin IdStrings}

\* C17: a body that does not start with an object makes parse return an
\* error before any entry is read; a type-mismatched value for accountId or
\* blobId makes parse return an error that names that field, parse stops at
\* that entry, and parse returns Ok only if no such entry exists.
C17_TypeMismatchFails ==
    /\ (parse_pc \in {"loop", "ok", "err"} /\ body.start # "DictStart") =>
          /\ parse_pc = "err"
          /\ parse_err = ""
          /\ cursor = 0
    /\ (parse_pc \in {"loop", "ok", "err"} /\ body.start = "DictStart") =>
          /\ \A j \in Mismatched :
                cursor >= j =>
                    /\ parse_pc = "err"
                    /\ parse_err = body.fields[j].key.name
                    /\ cursor = j
          /\ parse_pc = "ok" => Mismatched = {}
          /\ parse_pc = "err" => cursor \in Mismatched

\* parse has stopped at a blobId entry of the wrong shape, after reading an
\* accountId, with an entry left unread.
C17_Witness ==
    /\ parse_pc = "err"
    /\ parse_err = "blobId"
    /\ request.account_id = "id1"
    /\ cursor >= 2
    /\ cursor < Len(body.fields)

=============================================================================
